---------------------------- MODULE Spec2Model ----------------------------
(* A model of fabula, a runtime for the Yarn dialogue bytecode:            *)
(* the value model (src/src/model.rs), the function library                *)
(* (src/src/function.rs), the evaluation stack, the checkpoint and the     *)
(* interpreter's step loop (src/src/runner.rs), and the embedder that      *)
(* drives them (src/tests/main.rs).                                        *)
EXTENDS Integers, Sequences, FiniteSets, TLC

(***************************************************************************)
(* Bounds of the model.                                                    *)
(***************************************************************************)
\* select_option is offered to the embedder while the stack is shorter.
MaxStack == 2
\* Library calls of the library-only specification carry at most this many
\* arguments.
MaxArgs == 3
\* The embedder takes at most this many checkpoints from the story.
MaxRuns == 1
\* Builder::build is given at most this many sources.
MaxSources == 2
MaxOperands == 2

(***************************************************************************)
(* Values (model.rs, proto operand::Value): a tagged union of a string, a  *)
(* number (f32; the model keeps to integer-valued numbers) and a boolean.  *)
(* Every value is a record of the same shape so that any two compare.      *)
(***************************************************************************)
StringValue(x) == [t |-> "s", s |-> x, n |-> 0, b |-> FALSE]
FloatValue(x) == [t |-> "n", s |-> "", n |-> x, b |-> FALSE]
BoolValue(x) == [t |-> "b", s |-> "", n |-> 0, b |-> x]
\* Option::None where an Option<Value> is expected.
None == [t |-> "none", s |-> "", n |-> 0, b |-> FALSE]
\* In place of a value: the expression that was to give it panicked.
Unwound == [t |-> "panic", s |-> "", n |-> 0, b |-> FALSE]

(***************************************************************************)
(* Errors: ValueError, NodeError, CallError and InstructionError, one      *)
(* record shape for all.  s: a name, v: a value, a and b: numbers.         *)
(***************************************************************************)
Error(kind, s, v, a, b) == [kind |-> kind, s |-> s, v |-> v, a |-> a, b |-> b]
NoError == Error("none", "", None, 0, 0)
Missing == Error("Missing", "", None, 0, 0)
UnexpectedType(name, value) == Error("UnexpectedType", name, value, 0, 0)
InvalidLabel(name) == Error("InvalidLabel", name, None, 0, 0)
InvalidInstruction(code) == Error("InvalidInstruction", "", None, code, 0)
UnsupportedInstruction(op) == Error("UnsupportedInstruction", op, None, 0, 0)
UnknownFunction(name) == Error("UnknownFunction", name, None, 0, 0)
InvalidArguments(ty, value) == Error("InvalidArguments", ty, value, 0, 0)
InvalidArgumentCount(expected, actual) ==
    Error("InvalidArgumentCount", "", None, expected, actual)

\* Result<T, E>: Ok carries the value (a native value is kept in its Value
\* wrapping), Err the error.
Ok(v) == [ok |-> TRUE, val |-> v, err |-> NoError]
Err(e) == [ok |-> FALSE, val |-> None, err |-> e]

(***************************************************************************)
(* Conversions out of a Value.                                             *)
(***************************************************************************)
\* format!("{}", x) of a bool.
FormatBool(x) == IF x THEN "true" ELSE "false"

\* A conversion to String that, like the two of value_conversion!, accepts
\* its own tag only.
String_try_from_Strict(value) ==
    IF value.t = "s" THEN Ok(value)
    ELSE Err(UnexpectedType("Value::StringValue", value))

\* impl TryFrom<Value> for String: a string is itself, a number and a
\* boolean are formatted; the conversion never fails.
String_try_from(value) ==
    CASE value.t = "s" -> Ok(StringValue(value.s))
      [] value.t = "n" -> Ok(StringValue(ToString(value.n)))
      [] value.t = "b" -> Ok(StringValue(FormatBool(value.b)))

\* A conversion to bool that takes a number for a boolean.
bool_try_from_Lenient(value) ==
    IF value.t \in {"b", "n"} THEN Ok(BoolValue(value.b \/ value.n # 0))
    ELSE Err(UnexpectedType("Value::BoolValue", value))

\* value_conversion!(Value::BoolValue, bool)
bool_try_from(value) ==
    IF value.t = "b" THEN Ok(value)
    ELSE Err(UnexpectedType("Value::BoolValue", value))

\* value_conversion!(Value::FloatValue, f32)
f32_try_from(value) ==
    IF value.t = "n" THEN Ok(value)
    ELSE Err(UnexpectedType("Value::FloatValue", value))

\* T::try_from for the three native types a caller may ask for.
try_from(ty, value) ==
    CASE ty = "String" -> String_try_from(value)
      [] ty = "bool" -> bool_try_from(value)
      [] ty = "f32" -> f32_try_from(value)

\* `x as usize` of an f32: the cast saturates, a negative number is 0.
AsUsize(x) == IF x < 0 THEN 0 ELSE x

(***************************************************************************)
(* Operands: Vec<Operand>, each operand an Option<Value>.                  *)
(***************************************************************************)
\* impl Operands for Vec<Operand>: at::<T>(index), 0-based.
at(operands, ty, index) ==
    IF index + 1 > Len(operands) THEN Err(Missing)
    ELSE IF operands[index + 1] = None THEN Err(Missing)
    ELSE try_from(ty, operands[index + 1])

(***************************************************************************)
(* The variable store: HashMap<String, Value>, a function on its keys.     *)
(***************************************************************************)
\* VariableStore::get
get(variables, name) ==
    IF name \in DOMAIN variables THEN variables[name] ELSE None

\* A set that drops the write.
set_Dropped(variables, name, value) == variables

\* VariableStore::set (HashMap::insert)
set(variables, name, value) ==
    [k \in (DOMAIN variables) \cup {name} |->
        IF k = name THEN value ELSE variables[k]]

EmptyStore == [k \in {} |-> None]

(***************************************************************************)
(* The function library.                                                   *)
(***************************************************************************)
\* A visit-count variable under another prefix.
visit_count_var_name_Visited(node_name) == "$Yarn.Internal.Visited." \o node_name

\* builtins::visit_count_var_name
visit_count_var_name(node_name) == "$Yarn.Internal.Visiting." \o node_name

\* builtins::visited_count
visited_count(variables, name) ==
    LET v == get(variables, visit_count_var_name(name))
    IN  IF v.t = "n" THEN v.n ELSE 0

\* builtins::visited
visited(variables, name) == visited_count(variables, name) > 0

\* Library::builtins: each registered name with the parameter types of the
\* callable registered under it.
Builtins ==
    [n \in {"visited", "visited_count", "floor", "ceil", "Bool.EqualTo",
            "Bool.Not", "Bool.And", "Number.Add"} |->
        CASE n = "visited" -> <<"String">>
          [] n = "visited_count" -> <<"String">>
          [] n = "floor" -> <<"f32">>
          [] n = "ceil" -> <<"f32">>
          [] n = "Bool.EqualTo" -> <<"bool", "bool">>
          [] n = "Bool.Not" -> <<"bool">>
          [] n = "Bool.And" -> <<"bool", "bool">>
          [] n = "Number.Add" -> <<"f32", "f32">>]

\* std::any::type_name::<P>()
type_name(ty) ==
    IF ty = "String" THEN "alloc::string::String" ELSE ty

\* The registered callables, applied to converted arguments (each still in
\* its Value wrapping), and `.into()` of what they return.  floor and ceil
\* of an integer-valued number are that number.
Invoke(name, variables, input) ==
    CASE name = "visited" -> BoolValue(visited(variables, input[1].s))
      [] name = "visited_count" ->
            FloatValue(visited_count(variables, input[1].s))
      [] name = "floor" -> FloatValue(input[1].n)
      [] name = "ceil" -> FloatValue(input[1].n)
      [] name = "Bool.EqualTo" -> BoolValue(input[1].b = input[2].b)
      [] name = "Bool.Not" -> BoolValue(~input[1].b)
      [] name = "Bool.And" -> BoolValue(input[1].b /\ input[2].b)
      [] name = "Number.Add" -> FloatValue(input[1].n + input[2].n)

\* The tuple of conversions of impl_function!: the parameters are converted
\* left to right and the first failure returns.
RECURSIVE ConvertFrom(_, _, _)
ConvertFrom(params, args, i) ==
    IF i > Len(params) THEN Ok(None)
    ELSE IF ~try_from(params[i], args[i]).ok
         THEN Err(InvalidArguments(type_name(params[i]), args[i]))
         ELSE ConvertFrom(params, args, i + 1)

\* A dispatch that converts the arguments it was given before it counts
\* them.
Function_call_TypesFirst(name, params, variables, args) ==
    LET shorter == IF Len(args) < Len(params) THEN Len(args) ELSE Len(params)
        conv == ConvertFrom(SubSeq(params, 1, shorter), args, 1)
    IN  IF ~conv.ok THEN [res |-> conv, invoked |-> FALSE]
        ELSE IF Len(args) # Len(params)
        THEN [res |-> Err(InvalidArgumentCount(Len(params), Len(args))),
              invoked |-> FALSE]
        ELSE LET input == [i \in 1..Len(args) |->
                              try_from(params[i], args[i]).val]
             IN  [res |-> Ok(Invoke(name, variables, input)),
                  invoked |-> TRUE]

\* impl_function!: Function::call of a callable with parameters `params`.
\* invoked: whether the host callable ran.
Function_call(name, params, variables, args) ==
    IF Len(args) # Len(params)
    THEN [res |-> Err(InvalidArgumentCount(Len(params), Len(args))),
          invoked |-> FALSE]
    ELSE LET conv == ConvertFrom(params, args, 1)
         IN  IF ~conv.ok THEN [res |-> conv, invoked |-> FALSE]
             ELSE LET input == [i \in 1..Len(args) |->
                                   try_from(params[i], args[i]).val]
                  IN  [res |-> Ok(Invoke(name, variables, input)),
                       invoked |-> TRUE]

\* Library::call
Library_call(name, variables, args) ==
    IF name \notin DOMAIN Builtins
    THEN [res |-> Err(UnknownFunction(name)), invoked |-> FALSE]
    ELSE Function_call(name, Builtins[name], variables, args)

(***************************************************************************)
(* The program model: opcodes, instructions, nodes, the story.             *)
(***************************************************************************)
\* The OpCode enum in the order of its integer codes, JumpTo = 0.
OpCodeNames ==
    <<"JumpTo", "Jump", "RunLine", "RunCommand", "AddOption", "ShowOptions",
      "PushString", "PushFloat", "PushBool", "PushNull", "JumpIfFalse",
      "Pop", "CallFunc", "PushVariable", "StoreVariable", "Stop", "RunNode">>

\* OpCode::from_i32: the opcode of an integer code, "none" for an unknown one.
from_i32(code) ==
    IF code \in 0..(Len(OpCodeNames) - 1) THEN OpCodeNames[code + 1]
    ELSE "none"

\* The integer code of an opcode, as the compiler writes it.
CodeOf(op) == CHOOSE c \in 0..(Len(OpCodeNames) - 1) : OpCodeNames[c + 1] = op

Instruction(op, operands) == [opcode |-> CodeOf(op), operands |-> operands]
\* An instruction whose opcode integer is none of the enum's.
IllegalInstruction == [opcode |-> Len(OpCodeNames) + 82, operands |-> <<>>]

S(x) == StringValue(x)
F(x) == FloatValue(x)
B(x) == BoolValue(x)

NoLabels == [l \in {} |-> 0]

\* The nodes of the story under check.  Offsets are 0-based, as in the code.
Nodes ==
    [name \in {"Start", "Sum", "Cond", "Store", "Opts", "Toggle", "Go",
               "Fail", "Tail", "Line", "Bad", "Dyn", "Mix", "Void", "Ask",
               "Skip", "Lost", "Cmd", "Visit", "Mark", "Loop", "Inject",
               "Spin"} |->
      CASE name = "Start" ->
             [name |-> name, labels |-> NoLabels, instructions |->
                <<Instruction("PushString", <<S("x")>>),
                  Instruction("PushFloat", <<F(1)>>),
                  Instruction("RunLine", <<S("greet"), F(1)>>),
                  Instruction("Stop", <<>>)>>]
        [] name = "Sum" ->
             [name |-> name, labels |-> NoLabels, instructions |->
                <<Instruction("PushFloat", <<F(3)>>),
                  Instruction("PushFloat", <<F(4)>>),
                  Instruction("PushFloat", <<F(2)>>),
                  Instruction("CallFunc", <<S("Number.Add")>>),
                  Instruction("RunLine", <<S("sum"), F(1)>>),
                  Instruction("Stop", <<>>)>>]
        [] name = "Cond" ->
             [name |-> name, labels |-> [l \in {"end"} |-> 4],
              instructions |->
                <<Instruction("PushBool", <<B(TRUE)>>),
                  Instruction("PushBool", <<B(FALSE)>>),
                  Instruction("JumpIfFalse", <<S("end")>>),
                  Instruction("RunLine", <<S("skip"), F(0)>>),
                  Instruction("Stop", <<>>)>>]
        [] name = "Store" ->
             [name |-> name, labels |-> NoLabels, instructions |->
                <<Instruction("PushString", <<S("2")>>),
                  Instruction("PushString", <<S("slow")>>),
                  Instruction("StoreVariable", <<S("v")>>),
                  Instruction("RunCommand", <<S("wait {0} {1}"), F(2)>>),
                  Instruction("Stop", <<>>)>>]
        [] name = "Opts" ->
             [name |-> name,
              labels |-> [l \in {"A", "B", "end"} |->
                            CASE l = "A" -> 4 [] l = "B" -> 6 [] l = "end" -> 7],
              instructions |->
                <<Instruction("AddOption", <<S("k1"), S("A")>>),
                  Instruction("AddOption", <<S("k2"), S("B")>>),
                  Instruction("ShowOptions", <<>>),
                  Instruction("Jump", <<>>),
                  Instruction("RunLine", <<S("a")>>),
                  Instruction("JumpTo", <<S("end")>>),
                  Instruction("RunLine", <<S("b")>>),
                  Instruction("Stop", <<>>)>>]
        [] name = "Toggle" ->
             [name |-> name, labels |-> NoLabels, instructions |->
                <<Instruction("PushVariable", <<S("flag")>>),
                  Instruction("PushFloat", <<F(1)>>),
                  Instruction("CallFunc", <<S("Bool.Not")>>),
                  Instruction("StoreVariable", <<S("flag")>>),
                  Instruction("RunLine", <<S("k"), F(1)>>),
                  Instruction("Stop", <<>>)>>]
        [] name = "Go" ->
             [name |-> name, labels |-> NoLabels, instructions |->
                <<Instruction("PushString", <<S("Fail")>>),
                  Instruction("RunNode", <<>>)>>]
        [] name = "Fail" ->
             [name |-> name, labels |-> [l \in {"f"} |-> 4],
              instructions |->
                <<Instruction("PushVariable", <<S("flag")>>),
                  Instruction("JumpIfFalse", <<S("f")>>),
                  Instruction("Pop", <<>>),
                  Instruction("Pop", <<>>),
                  Instruction("Pop", <<>>),
                  Instruction("PushBool", <<B(TRUE)>>),
                  Instruction("StoreVariable", <<S("flag")>>),
                  Instruction("PushNull", <<>>)>>]
        [] name = "Tail" ->
             [name |-> name, labels |-> NoLabels, instructions |->
                <<Instruction("RunLine", <<S("last")>>),
                  Instruction("PushString", <<S("x")>>)>>]
        [] name = "Line" ->
             [name |-> name, labels |-> NoLabels, instructions |->
                <<Instruction("RunLine", <<S("only")>>)>>]
        [] name = "Bad" ->
             [name |-> name, labels |-> NoLabels, instructions |->
                <<Instruction("RunLine", <<S("before")>>),
                  IllegalInstruction>>]
        [] name = "Dyn" ->
             [name |-> name, labels |-> NoLabels, instructions |->
                <<Instruction("RunNode", <<>>)>>]
        [] name = "Mix" ->
             [name |-> name, labels |-> NoLabels, instructions |->
                <<Instruction("PushString", <<S("x")>>),
                  Instruction("PushFloat", <<F(5)>>),
                  Instruction("PushFloat", <<F(2)>>),
                  Instruction("CallFunc", <<S("Bool.And")>>),
                  Instruction("Stop", <<>>)>>]
        [] name = "Void" ->
             [name |-> name, labels |-> NoLabels, instructions |->
                <<Instruction("PushVariable", <<S("void")>>),
                  Instruction("PushVariable", <<S("flag")>>),
                  Instruction("PushVariable", <<S("unset")>>)>>]
        [] name = "Ask" ->
             [name |-> name, labels |-> NoLabels, instructions |->
                <<Instruction("PushBool", <<B(FALSE)>>),
                  Instruction("PushString", <<S("p")>>),
                  Instruction("PushString", <<S("q")>>),
                  Instruction("AddOption", <<S("k3"), S("A"), F(2), B(TRUE)>>),
                  Instruction("PushString", <<S("r")>>),
                  Instruction("AddOption", <<S("k4"), S("B"), F(1), B(FALSE)>>),
                  Instruction("AddOption", <<S("k5"), S("B"), F(0)>>),
                  Instruction("AddOption", <<S("k6"), S("A"), F(0), B(TRUE)>>),
                  Instruction("ShowOptions", <<>>),
                  Instruction("Stop", <<>>)>>]
        [] name = "Skip" ->
             [name |-> name, labels |-> [l \in {"end"} |-> 4],
              instructions |->
                <<Instruction("PushBool", <<B(FALSE)>>),
                  Instruction("RunLine", <<S("pre")>>),
                  Instruction("JumpIfFalse", <<S("end")>>),
                  Instruction("RunLine", <<S("skip"), F(0)>>),
                  Instruction("Stop", <<>>)>>]
        [] name = "Lost" ->
             [name |-> name, labels |-> [l \in {"B"} |-> 1],
              instructions |->
                <<Instruction("JumpTo", <<S("nowhere")>>),
                  Instruction("Jump", <<>>)>>]
        [] name = "Cmd" ->
             [name |-> name, labels |-> NoLabels, instructions |->
                <<Instruction("RunCommand", <<S("wait {0} {1}"), F(2)>>),
                  Instruction("RunCommand", <<S("halt")>>),
                  Instruction("Stop", <<>>)>>]
        [] name = "Visit" ->
             [name |-> name, labels |-> NoLabels, instructions |->
                <<Instruction("PushString", <<S("Intro")>>),
                  Instruction("PushFloat", <<F(1)>>),
                  Instruction("CallFunc", <<S("visited_count")>>),
                  Instruction("PushString", <<S("Intro")>>),
                  Instruction("PushFloat", <<F(1)>>),
                  Instruction("CallFunc", <<S("visited")>>),
                  Instruction("RunLine", <<S("v"), F(2)>>),
                  Instruction("Stop", <<>>)>>]
        [] name = "Mark" ->
             [name |-> name, labels |-> NoLabels, instructions |->
                <<Instruction("StoreVariable",
                              <<S("$Yarn.Internal.Visiting.Intro")>>),
                  Instruction("PushString", <<S("Intro")>>),
                  Instruction("PushFloat", <<F(1)>>),
                  Instruction("CallFunc", <<S("visited_count")>>),
                  Instruction("RunLine", <<S("m"), F(1)>>),
                  Instruction("Stop", <<>>)>>]
        [] name = "Loop" ->
             [name |-> name, labels |-> [l \in {"top"} |-> 0],
              instructions |->
                <<Instruction("RunLine", <<S("again"), F(0 - 1)>>),
                  Instruction("JumpTo", <<S("top")>>)>>]
        [] name = "Inject" ->
             [name |-> name, labels |-> NoLabels, instructions |->
                <<Instruction("PushString", <<S("A")>>),
                  Instruction("PushString", <<S("{0}")>>),
                  Instruction("RunCommand", <<S("wait {0} {1}"), F(2)>>),
                  Instruction("Stop", <<>>)>>]
        [] name = "Spin" ->
             [name |-> name, labels |-> [l \in {"top"} |-> 1],
              instructions |->
                <<Instruction("RunLine", <<S("spin")>>),
                  Instruction("PushBool", <<B(FALSE)>>),
                  Instruction("Pop", <<>>),
                  Instruction("JumpTo", <<S("top")>>),
                  Instruction("Stop", <<>>)>>]]

\* program.initial_values: a map of operands.  An operand's value is an
\* Option: that of "void" is None, as a program may be decoded.
InitialValues ==
    [k \in {"flag", "void"} |-> IF k = "flag" THEN B(FALSE) ELSE None]

\* Story::node: Some(the name of the node, by which the model refers to
\* it) or None.
Story_node(name) ==
    IF name \in DOMAIN Nodes THEN StringValue(name) ELSE None

\* Story::initial_value: .map(|operand| operand.value.as_ref().expect(..))
\* panics on an operand without a value.
initial_value(name) ==
    IF name \notin DOMAIN InitialValues THEN None
    ELSE IF InitialValues[name] = None THEN Unwound
    ELSE InitialValues[name]

\* A resolution that sends an unknown label to the head of the node.
resolve_label_Lenient(node, name) ==
    IF name \in DOMAIN Nodes[node].labels
    THEN Ok(FloatValue(Nodes[node].labels[name]))
    ELSE Ok(FloatValue(0))

\* Node::resolve_label
resolve_label(node, name) ==
    IF name \in DOMAIN Nodes[node].labels
    THEN Ok(FloatValue(Nodes[node].labels[name]))
    ELSE Err(InvalidLabel(name))

(***************************************************************************)
(* The evaluation stack: Vec<Value>, the top is the last element.  An      *)
(* operation that may change the stack returns the result and the stack.   *)
(***************************************************************************)
\* EvaluationStack::pop_any
pop_any(stack) ==
    IF Len(stack) = 0 THEN [res |-> Err(Missing), stack |-> stack]
    ELSE [res |-> Ok(stack[Len(stack)]),
          stack |-> SubSeq(stack, 1, Len(stack) - 1)]

\* EvaluationStack::peek_any: self.0.get(0)
peek_any(stack) ==
    IF Len(stack) = 0 THEN Err(Missing) ELSE Ok(stack[1])

\* EvaluationStack::peek::<T>: self.0.get(0), then the conversion
peek(ty, stack) ==
    IF Len(stack) = 0 THEN Err(Missing) ELSE try_from(ty, stack[1])

\* EvaluationStack::pop::<T>: the value is popped before it is converted
pop(ty, stack) ==
    IF Len(stack) = 0 THEN [res |-> Err(Missing), stack |-> stack]
    ELSE [res |-> try_from(ty, stack[Len(stack)]),
          stack |-> SubSeq(stack, 1, Len(stack) - 1)]

\* EvaluationStack::push
push(stack, value) == Append(stack, value)

\* Vec::reverse
Reverse(seq) == [i \in 1..Len(seq) |-> seq[Len(seq) + 1 - i]]

\* `for _ in 0..count { out.push(stack.pop::<T>()?) }`: the values in the
\* order they are popped; Missing when the stack runs out.
RECURSIVE PopMany(_, _, _, _)
PopMany(ty, stack, count, out) ==
    IF count = 0 THEN [res |-> Ok(None), out |-> out, stack |-> stack]
    ELSE LET p == pop(ty, stack)
         IN  IF ~p.res.ok THEN [res |-> p.res, out |-> out, stack |-> p.stack]
             ELSE PopMany(ty, p.stack, count - 1, Append(out, p.res.val))

\* The same loop over pop_any.
RECURSIVE PopManyAny(_, _, _)
PopManyAny(stack, count, out) ==
    IF count = 0 THEN [res |-> Ok(None), out |-> out, stack |-> stack]
    ELSE LET p == pop_any(stack)
         IN  IF ~p.res.ok THEN [res |-> p.res, out |-> out, stack |-> p.stack]
             ELSE PopManyAny(p.stack, count - 1, Append(out, p.res.val))

\* Vec<Value> of strings to the Vec<String> an event carries.
Strings(seq) == [i \in 1..Len(seq) |-> seq[i].s]

(***************************************************************************)
(* Command text.  A string is opaque to the model but for the placeholders *)
(* of a command: Tokenize cuts a text at its placeholders, str::replace    *)
(* works on the pieces and Concat joins them again.                        *)
(***************************************************************************)
Tokenize(text) ==
    CASE text = "wait {0} {1}" -> <<"wait ", "{0}", " ", "{1}">>
      [] OTHER -> <<text>>

RECURSIVE Concat(_)
Concat(tokens) ==
    IF Len(tokens) = 0 THEN "" ELSE Head(tokens) \o Concat(Tail(tokens))

\* Placeholders counted from 1.
Placeholder_OneBased(index) == "{" \o ToString(index + 1) \o "}"

\* format!("{{{}}}", index)
Placeholder(index) == "{" \o ToString(index) \o "}"

\* str::replace(search, substitution), on the pieces of the text.
RECURSIVE ReplaceTokens(_, _, _)
ReplaceTokens(tokens, search, substitution) ==
    IF Len(tokens) = 0 THEN <<>>
    ELSE (IF Head(tokens) = search THEN Tokenize(substitution)
          ELSE <<Head(tokens)>>)
         \o ReplaceTokens(Tail(tokens), search, substitution)

(***************************************************************************)
(* Events and the outcome of executing one instruction.                    *)
(***************************************************************************)
Event(tag, enabled, key, substitutions, target) ==
    [tag |-> tag, enabled |-> enabled, key |-> key,
     substitutions |-> substitutions, target |-> target]
NoEvent == Event("none", FALSE, "", <<>>, "")
ShowLine(key, substitutions) == Event("ShowLine", FALSE, key, substitutions, "")
Command(text) == Event("Command", FALSE, text, <<>>, "")
AddOption(enabled, key, substitutions, target) ==
    Event("AddOption", enabled, key, substitutions, target)
ShowOptions == Event("ShowOptions", FALSE, "", <<>>, "")
Complete == Event("Complete", FALSE, "", <<>>, "")

\* ControlFlow
FlowNext == [jump |-> FALSE, node |-> "", target |-> 0]
FlowJump(node, target) == [jump |-> TRUE, node |-> node, target |-> target]

\* What execute leaves behind: Ok((flow, event)), Err(source) or a panic,
\* with the stack and the variable store as the instruction left them.
Done(flow, event, stack, variables) ==
    [kind |-> "ok", err |-> NoError, flow |-> flow, event |-> event,
     stack |-> stack, variables |-> variables]
Failed(e, stack, variables) ==
    [kind |-> "err", err |-> e, flow |-> FlowNext, event |-> NoEvent,
     stack |-> stack, variables |-> variables]
Panicked(stack, variables) ==
    [kind |-> "panic", err |-> NoError, flow |-> FlowNext, event |-> NoEvent,
     stack |-> stack, variables |-> variables]

(***************************************************************************)
(* StoryRunner::execute, one operator per arm of its match.  node is the   *)
(* name of the current node.                                               *)
(***************************************************************************)
execute_JumpTo(node, operands, stack, variables) ==
    LET label_name == at(operands, "String", 0)
    IN  IF ~label_name.ok THEN Failed(label_name.err, stack, variables)
        ELSE LET label_offset == resolve_label(node, label_name.val.s)
             IN  IF ~label_offset.ok
                 THEN Failed(label_offset.err, stack, variables)
                 ELSE Done(FlowJump(node, label_offset.val.n), NoEvent,
                           stack, variables)

\* A Jump that reads the label without popping it.
execute_Jump_Peeks(node, operands, stack, variables) ==
    LET label_name == pop("String", stack)
    IN  IF ~label_name.res.ok
        THEN Failed(label_name.res.err, stack, variables)
        ELSE LET label_offset == resolve_label(node, label_name.res.val.s)
             IN  IF ~label_offset.ok
                 THEN Failed(label_offset.err, stack, variables)
                 ELSE Done(FlowJump(node, label_offset.val.n), NoEvent,
                           stack, variables)

execute_Jump(node, operands, stack, variables) ==
    LET label_name == pop("String", stack)
    IN  IF ~label_name.res.ok
        THEN Failed(label_name.res.err, label_name.stack, variables)
        ELSE LET label_offset == resolve_label(node, label_name.res.val.s)
             IN  IF ~label_offset.ok
                 THEN Failed(label_offset.err, label_name.stack, variables)
                 ELSE Done(FlowJump(node, label_offset.val.n), NoEvent,
                           label_name.stack, variables)

\* Substitutions kept in the order they were popped, the last pushed first.
Substitutions_Unreversed(operands, index, stack) ==
    IF Len(operands) > index
    THEN LET expression_count == at(operands, "f32", index)
         IN  IF ~expression_count.ok
             THEN [res |-> expression_count, out |-> <<>>, stack |-> stack]
             ELSE LET popped == PopMany("String", stack,
                                        AsUsize(expression_count.val.n), <<>>)
                  IN  [res |-> popped.res, out |-> popped.out,
                       stack |-> popped.stack]
    ELSE [res |-> Ok(None), out |-> <<>>, stack |-> stack]

\* The substitutions of RunLine and AddOption: when the operand list is
\* longer than `index`, operand `index` values are popped as strings and
\* reversed; otherwise none.
Substitutions(operands, index, stack) ==
    IF Len(operands) > index
    THEN LET expression_count == at(operands, "f32", index)
         IN  IF ~expression_count.ok
             THEN [res |-> expression_count, out |-> <<>>, stack |-> stack]
             ELSE LET popped == PopMany("String", stack,
                                        AsUsize(expression_count.val.n), <<>>)
                  IN  [res |-> popped.res, out |-> Reverse(popped.out),
                       stack |-> popped.stack]
    ELSE [res |-> Ok(None), out |-> <<>>, stack |-> stack]

execute_RunLine(node, operands, stack, variables) ==
    LET key == at(operands, "String", 0)
    IN  IF ~key.ok THEN Failed(key.err, stack, variables)
        ELSE LET substitutions == Substitutions(operands, 1, stack)
             IN  IF ~substitutions.res.ok
                 THEN Failed(substitutions.res.err, substitutions.stack,
                             variables)
                 ELSE Done(FlowNext,
                           ShowLine(key.val.s, Strings(substitutions.out)),
                           substitutions.stack, variables)

\* `for index in (0..expression_count).rev()`: `remaining` indices are left,
\* the next one is remaining - 1.
RECURSIVE SubstituteCommand(_, _, _)
SubstituteCommand(command_text, stack, remaining) ==
    IF remaining = 0
    THEN [res |-> Ok(None), text |-> command_text, stack |-> stack]
    ELSE LET substitution == pop("String", stack)
         IN  IF ~substitution.res.ok
             THEN [res |-> substitution.res, text |-> command_text,
                   stack |-> substitution.stack]
             ELSE SubstituteCommand(
                      ReplaceTokens(command_text, Placeholder(remaining - 1),
                                    substitution.res.val.s),
                      substitution.stack, remaining - 1)

execute_RunCommand(node, operands, stack, variables) ==
    LET command_text == at(operands, "String", 0)
    IN  IF ~command_text.ok THEN Failed(command_text.err, stack, variables)
        ELSE IF Len(operands) > 1
        THEN LET expression_count == at(operands, "f32", 1)
             IN  IF ~expression_count.ok
                 THEN Failed(expression_count.err, stack, variables)
                 ELSE LET sub == SubstituteCommand(
                                     Tokenize(command_text.val.s), stack,
                                     AsUsize(expression_count.val.n))
                      IN  IF ~sub.res.ok
                          THEN Failed(sub.res.err, sub.stack, variables)
                          ELSE Done(FlowNext, Command(Concat(sub.text)),
                                    sub.stack, variables)
        ELSE Done(FlowNext, Command(command_text.val.s), stack, variables)

\* An AddOption that pops its condition before its substitutions.
execute_AddOption_ConditionFirst(node, operands, stack, variables) ==
    LET key == at(operands, "String", 0)
        target == at(operands, "String", 1)
        has_condition == at(operands, "bool", 3)
        conditional == Len(operands) > 3 /\ has_condition.ok
                          /\ has_condition.val.b
        enabled == IF conditional THEN pop("bool", stack)
                   ELSE [res |-> Ok(BoolValue(TRUE)), stack |-> stack]
        substitutions == Substitutions(operands, 2, enabled.stack)
    IN  IF ~key.ok THEN Failed(key.err, stack, variables)
        ELSE IF ~target.ok THEN Failed(target.err, stack, variables)
        ELSE IF Len(operands) > 3 /\ ~has_condition.ok
        THEN Failed(has_condition.err, stack, variables)
        ELSE IF ~enabled.res.ok
        THEN Failed(enabled.res.err, enabled.stack, variables)
        ELSE IF ~substitutions.res.ok
        THEN Failed(substitutions.res.err, substitutions.stack, variables)
        ELSE Done(FlowNext,
                  AddOption(enabled.res.val.b, key.val.s,
                            Strings(substitutions.out), target.val.s),
                  substitutions.stack, variables)

execute_AddOption(node, operands, stack, variables) ==
    LET key == at(operands, "String", 0)
        target == at(operands, "String", 1)
        substitutions == Substitutions(operands, 2, stack)
        has_condition == at(operands, "bool", 3)
        enabled == pop("bool", substitutions.stack)
    IN  IF ~key.ok THEN Failed(key.err, stack, variables)
        ELSE IF ~target.ok THEN Failed(target.err, stack, variables)
        ELSE IF ~substitutions.res.ok
        THEN Failed(substitutions.res.err, substitutions.stack, variables)
        ELSE IF Len(operands) > 3 /\ ~has_condition.ok
        THEN Failed(has_condition.err, substitutions.stack, variables)
        ELSE IF Len(operands) > 3 /\ has_condition.val.b
        THEN IF ~enabled.res.ok
             THEN Failed(enabled.res.err, enabled.stack, variables)
             ELSE Done(FlowNext,
                       AddOption(enabled.res.val.b, key.val.s,
                                 Strings(substitutions.out), target.val.s),
                       enabled.stack, variables)
        ELSE Done(FlowNext,
                  AddOption(TRUE, key.val.s, Strings(substitutions.out),
                            target.val.s),
                  substitutions.stack, variables)

\* ShowOptions gives no event: the loop would run on past it.
execute_ShowOptions_Silent(node, operands, stack, variables) ==
    Done(FlowNext, NoEvent, stack, variables)

execute_ShowOptions(node, operands, stack, variables) ==
    Done(FlowNext, ShowOptions, stack, variables)

\* PushString, PushFloat and PushBool: stack.push(operands.at::<T>(0)?)
execute_Push(ty, operands, stack, variables) ==
    LET value == at(operands, ty, 0)
    IN  IF ~value.ok THEN Failed(value.err, stack, variables)
        ELSE Done(FlowNext, NoEvent, push(stack, value.val), variables)

\* A PushNull that pushes a value and goes on.
execute_PushNull_Pushes(node, operands, stack, variables) ==
    Done(FlowNext, NoEvent, push(stack, StringValue("null")), variables)

execute_PushNull(node, operands, stack, variables) ==
    Failed(UnsupportedInstruction("PushNull"), stack, variables)

\* A JumpIfFalse that pops the condition it decides on.
execute_JumpIfFalse_Pops(node, operands, stack, variables) ==
    LET condition == pop("bool", stack)
    IN  IF ~condition.res.ok
        THEN Failed(condition.res.err, condition.stack, variables)
        ELSE IF ~condition.res.val.b
        THEN LET target_name == at(operands, "String", 0)
             IN  IF ~target_name.ok
                 THEN Failed(target_name.err, condition.stack, variables)
                 ELSE LET target == resolve_label(node, target_name.val.s)
                      IN  IF ~target.ok
                          THEN Failed(target.err, condition.stack, variables)
                          ELSE Done(FlowJump(node, target.val.n), NoEvent,
                                    condition.stack, variables)
        ELSE Done(FlowNext, NoEvent, condition.stack, variables)

execute_JumpIfFalse(node, operands, stack, variables) ==
    LET condition == peek("bool", stack)
    IN  IF ~condition.ok THEN Failed(condition.err, stack, variables)
        ELSE IF ~condition.val.b
        THEN LET target_name == at(operands, "String", 0)
             IN  IF ~target_name.ok
                 THEN Failed(target_name.err, stack, variables)
                 ELSE LET target == resolve_label(node, target_name.val.s)
                      IN  IF ~target.ok
                          THEN Failed(target.err, stack, variables)
                          ELSE Done(FlowJump(node, target.val.n), NoEvent,
                                    stack, variables)
        ELSE Done(FlowNext, NoEvent, stack, variables)

execute_Pop(node, operands, stack, variables) ==
    LET p == pop_any(stack)
    IN  IF ~p.res.ok THEN Failed(p.res.err, p.stack, variables)
        ELSE Done(FlowNext, NoEvent, p.stack, variables)

\* The arguments handed over in the order they were popped.
CallParameters_Unreversed(popped) == popped

\* The arguments of CallFunc as the library receives them: popped, then
\* reversed.
CallParameters(popped) == Reverse(popped)

execute_CallFunc(node, operands, stack, variables) ==
    LET name == at(operands, "String", 0)
    IN  IF ~name.ok THEN Failed(name.err, stack, variables)
        ELSE LET parameter_count == pop("f32", stack)
             IN  IF ~parameter_count.res.ok
                 THEN Failed(parameter_count.res.err, parameter_count.stack,
                             variables)
                 ELSE LET popped == PopManyAny(parameter_count.stack,
                                        AsUsize(parameter_count.res.val.n),
                                        <<>>)
                      IN  IF ~popped.res.ok
                          THEN Failed(popped.res.err, popped.stack, variables)
                          ELSE LET return_value ==
                                       Library_call(name.val.s, variables,
                                           CallParameters(popped.out)).res
                               IN  IF ~return_value.ok
                                   THEN Failed(return_value.err, popped.stack,
                                               variables)
                                   ELSE Done(FlowNext, NoEvent,
                                             push(popped.stack,
                                                  return_value.val),
                                             variables)

\* A PushVariable that writes the initial value it falls back to into the
\* store.
execute_PushVariable_Caches(node, operands, stack, variables) ==
    LET var_name == at(operands, "String", 0)
    IN  IF ~var_name.ok THEN Failed(var_name.err, stack, variables)
        ELSE LET stored == get(variables, var_name.val.s)
                 var_value == IF stored # None THEN stored
                              ELSE initial_value(var_name.val.s)
             IN  IF var_value = Unwound THEN Panicked(stack, variables)
                 ELSE IF var_value # None
                 THEN Done(FlowNext, NoEvent, push(stack, var_value),
                           set(variables, var_name.val.s, var_value))
                 ELSE Failed(Missing, stack, variables)

execute_PushVariable(node, operands, stack, variables) ==
    LET var_name == at(operands, "String", 0)
    IN  IF ~var_name.ok THEN Failed(var_name.err, stack, variables)
        ELSE LET stored == get(variables, var_name.val.s)
                 var_value == IF stored # None THEN stored
                              ELSE initial_value(var_name.val.s)
             IN  IF var_value = Unwound THEN Panicked(stack, variables)
                 ELSE IF var_value # None
                 THEN Done(FlowNext, NoEvent, push(stack, var_value),
                           variables)
                 ELSE Failed(Missing, stack, variables)

\* A StoreVariable that pops the value it stores.
execute_StoreVariable_Pops(node, operands, stack, variables) ==
    LET value == pop_any(stack)
    IN  IF ~value.res.ok THEN Failed(value.res.err, value.stack, variables)
        ELSE LET var_name == at(operands, "String", 0)
             IN  IF ~var_name.ok
                 THEN Failed(var_name.err, value.stack, variables)
                 ELSE Done(FlowNext, NoEvent, value.stack,
                           set(variables, var_name.val.s, value.res.val))

execute_StoreVariable(node, operands, stack, variables) ==
    LET value == peek_any(stack)
    IN  IF ~value.ok THEN Failed(value.err, stack, variables)
        ELSE LET var_name == at(operands, "String", 0)
             IN  IF ~var_name.ok THEN Failed(var_name.err, stack, variables)
                 ELSE Done(FlowNext, NoEvent, stack,
                           set(variables, var_name.val.s, value.val))

execute_Stop(node, operands, stack, variables) ==
    Done(FlowNext, Complete, stack, variables)

\* story.node(node_name).unwrap() panics on None.
execute_RunNode(node, operands, stack, variables) ==
    LET node_name == pop("String", stack)
    IN  IF ~node_name.res.ok
        THEN Failed(node_name.res.err, node_name.stack, variables)
        ELSE LET new_node == Story_node(node_name.res.val.s)
             IN  IF new_node = None
                 THEN Panicked(node_name.stack, variables)
                 ELSE Done(FlowJump(new_node.s, 0), NoEvent, node_name.stack,
                           variables)

execute(node, opcode, operands, stack, variables) ==
    CASE opcode = "JumpTo" -> execute_JumpTo(node, operands, stack, variables)
      [] opcode = "Jump" -> execute_Jump(node, operands, stack, variables)
      [] opcode = "RunLine" -> execute_RunLine(node, operands, stack, variables)
      [] opcode = "RunCommand" ->
            execute_RunCommand(node, operands, stack, variables)
      [] opcode = "AddOption" ->
            execute_AddOption(node, operands, stack, variables)
      [] opcode = "ShowOptions" ->
            execute_ShowOptions(node, operands, stack, variables)
      [] opcode = "PushString" ->
            execute_Push("String", operands, stack, variables)
      [] opcode = "PushFloat" -> execute_Push("f32", operands, stack, variables)
      [] opcode = "PushBool" -> execute_Push("bool", operands, stack, variables)
      [] opcode = "PushNull" ->
            execute_PushNull(node, operands, stack, variables)
      [] opcode = "JumpIfFalse" ->
            execute_JumpIfFalse(node, operands, stack, variables)
      [] opcode = "Pop" -> execute_Pop(node, operands, stack, variables)
      [] opcode = "CallFunc" ->
            execute_CallFunc(node, operands, stack, variables)
      [] opcode = "PushVariable" ->
            execute_PushVariable(node, operands, stack, variables)
      [] opcode = "StoreVariable" ->
            execute_StoreVariable(node, operands, stack, variables)
      [] opcode = "Stop" -> execute_Stop(node, operands, stack, variables)
      [] opcode = "RunNode" -> execute_RunNode(node, operands, stack, variables)

(***************************************************************************)
(* The state.                                                              *)
(***************************************************************************)
VARIABLES
    cp,           \* the checkpoint the embedder holds, NoCheckpoint if none
    variables,    \* the embedder's variable store
    mode,         \* "idle": no call in progress; "called": step was entered;
                  \* "running": step's loop has executed an instruction;
                  \* "panicked": step panicked; "library": a library call
    node,         \* step's local `node` (its name)
    pc,           \* step's local `pc`
    stack,        \* step's local `stack`
    result,       \* what the last call of step returned
    entry,        \* the checkpoint the last call of step was given
    phase,        \* the clone experiment: "none", "clone" (the clone is
                  \* being stepped), "cloneDone", "orig" (the original is
                  \* being stepped), "origDone"
    snap,         \* the clone experiment: the original checkpoint, the
                  \* contents of the store when each of the two steps began
                  \* and those the step of the clone left
    cloneResult,  \* the clone experiment: what the step of the clone returned
    callName,     \* a direct library call: the name
    callArgs,     \* a direct library call: the arguments
    callOut,      \* a direct library call: what it returned
    runs,         \* the number of checkpoints the embedder has taken from
                  \* the story
    option_targets, \* the embedder's list of the targets of the enabled
                  \* options it was shown since the last selection
    sources,      \* Builder::sources
    merged,       \* Builder::build: the number of sources merged so far
    root,         \* Builder::build: the program merged so far
    built,        \* what Builder::build returned
    atOperands,   \* a direct operand access: the operand list
    atType,       \* a direct operand access: the native type asked for
    atIndex,      \* a direct operand access: the index
    atOut         \* a direct operand access: what it returned

vars == <<cp, variables, mode, node, pc, stack, result, entry, phase, snap,
          cloneResult, callName, callArgs, callOut, runs, option_targets,
          sources, merged, root, built, atOperands, atType, atIndex, atOut>>

\* The variables of Builder::build.
buildVars == <<sources, merged, root, built>>

\* The variables of the embedder, of step and of a direct library call.
runVars == <<cp, variables, mode, node, pc, stack, result, entry, phase, snap,
             cloneResult, callName, callArgs, callOut, runs, option_targets>>

\* The variables of a direct call of Operands::at.
atVars == <<atOperands, atType, atIndex, atOut>>

\* StoryCheckpoint::at
Checkpoint(n, offset, s) == [node |-> n, pc |-> offset, stack |-> s]
NoCheckpoint == Checkpoint("", 0, <<>>)

NoInstruction == [opcode |-> 0 - 1, operands |-> <<>>]

\* Result<(StoryCheckpoint, StoryEvent), StoryRunnerError>
StepOk(checkpoint, event) ==
    [kind |-> "ok", checkpoint |-> checkpoint, event |-> event,
     source |-> NoError, node |-> "", pc |-> 0, instruction |-> NoInstruction]
StoryRunnerError(source, n, offset, instruction) ==
    [kind |-> "err", checkpoint |-> NoCheckpoint, event |-> NoEvent,
     source |-> source, node |-> n, pc |-> offset,
     instruction |-> instruction]
NoResult ==
    [kind |-> "none", checkpoint |-> NoCheckpoint, event |-> NoEvent,
     source |-> NoError, node |-> "", pc |-> 0, instruction |-> NoInstruction]

NoSnap ==
    [cp |-> NoCheckpoint, before |-> EmptyStore, between |-> EmptyStore,
     after |-> EmptyStore]
NoCallOut == [res |-> Err(NoError), invoked |-> FALSE]

\* The names the embedder passes to select_option: labels, a node, neither.
OptionNames == {"A", "B", "Sum"}

\* The stores the embedder may start with.
InitialStores ==
    {EmptyStore,
     [k \in {"flag", "void", "$Yarn.Internal.Visiting.Intro"} |->
        IF k = "$Yarn.Internal.Visiting.Intro" THEN FloatValue(2)
        ELSE BoolValue(TRUE)]}

LibraryIdle == /\ callName = "" /\ callArgs = <<>> /\ callOut = NoCallOut

\* Program::default()
NoProgram == [nodes |-> [k \in {} |-> 0], initial_values |-> [k \in {} |-> 0]]

\* Result<Story, BuilderError>: Ok(Story { program }), or the error with,
\* for an Ambiguity, its reason and key.
BuildOk(program) ==
    [kind |-> "ok", error |-> "", reason |-> "", key |-> "", story |-> program]
BuildErr(error, reason, key) ==
    [kind |-> "err", error |-> error, reason |-> reason, key |-> key,
     story |-> NoProgram]
NoBuilt ==
    [kind |-> "none", error |-> "", reason |-> "", key |-> "",
     story |-> NoProgram]

BuildIdle ==
    /\ sources = <<>> /\ merged = 0 /\ root = NoProgram /\ built = NoBuilt

\* No direct call of Operands::at.
NoAtOut == Err(NoError)
AtIdle ==
    /\ atOperands = <<>> /\ atType = "" /\ atIndex = 0 /\ atOut = NoAtOut

\* The embedder has taken no checkpoint and has been shown no option.
EmbedderIdle == runs = 0 /\ option_targets = <<>>

Init ==
    /\ cp = NoCheckpoint
    /\ variables \in InitialStores
    /\ mode = "idle"
    /\ node = "" /\ pc = 0 /\ stack = <<>>
    /\ result = NoResult
    /\ entry = NoCheckpoint
    /\ phase = "none" /\ snap = NoSnap /\ cloneResult = NoResult
    /\ LibraryIdle
    /\ EmbedderIdle
    /\ BuildIdle
    /\ AtIdle

(***************************************************************************)
(* The embedder.                                                           *)
(***************************************************************************)
NoExperiment == /\ phase' = "none" /\ snap' = NoSnap /\ cloneResult' = NoResult

\* Story::checkpoint_at(name) / StoryCheckpoint::new: a fresh checkpoint at
\* offset 0 with an empty stack; the embedder drops what it held.
checkpoint_at(name) ==
    /\ mode = "idle"
    /\ Story_node(name) # None
    /\ cp' = Checkpoint(name, 0, <<>>)
    /\ result' = NoResult /\ entry' = NoCheckpoint
    /\ node' = "" /\ pc' = 0 /\ stack' = <<>>
    /\ NoExperiment
    /\ runs < MaxRuns
    /\ runs' = runs + 1
    /\ UNCHANGED <<variables, mode, callName, callArgs, callOut,
                   option_targets, buildVars,
                   atVars>>

\* The checkpoint after select_option(name).
Selected(checkpoint, name) ==
    [checkpoint EXCEPT !.stack = push(checkpoint.stack, StringValue(name))]

\* checkpoint.select_option(name); option_targets.clear()
select_option(name) ==
    /\ mode = "idle"
    /\ cp # NoCheckpoint
    /\ Len(cp.stack) < MaxStack
    /\ cp' = Selected(cp, name)
    /\ option_targets' = <<>>
    /\ NoExperiment
    /\ UNCHANGED <<variables, mode, node, pc, stack, result, entry,
                   callName, callArgs, callOut, runs, buildVars,
                   atVars>>

\* step is entered with `checkpoint`, which is moved into its locals.
Enter(checkpoint) ==
    /\ mode' = "called"
    /\ node' = checkpoint.node
    /\ pc' = checkpoint.pc
    /\ stack' = checkpoint.stack
    /\ entry' = checkpoint
    /\ cp' = NoCheckpoint
    /\ UNCHANGED <<variables, result, callName, callArgs, callOut, runs,
                   option_targets, buildVars,
                   atVars>>

\* runner.step(&story, checkpoint, &mut vars)
step_call ==
    /\ mode = "idle"
    /\ cp # NoCheckpoint
    /\ Enter(cp)
    /\ NoExperiment

\* The embedder keeps the checkpoint and steps a clone of it.
step_clone ==
    /\ mode = "idle"
    /\ cp # NoCheckpoint
    /\ Enter(cp)
    /\ phase' = "clone"
    /\ snap' = [cp |-> cp, before |-> variables, between |-> EmptyStore,
                after |-> EmptyStore]
    /\ cloneResult' = NoResult

\* A clone that shares the storage of its stack with the original: the
\* original shows what the step of the clone did to the stack.
Original_SharedStack(kept, stepped) == [kept EXCEPT !.stack = stepped]

\* #[derive(Clone)] of StoryCheckpoint and EvaluationStack: the original
\* the embedder kept, after the clone has been stepped and has left step's
\* local stack as `stepped`.
Original(kept, stepped) == kept

\* The clone has been stepped; the embedder now steps the original.
step_original ==
    /\ mode = "idle"
    /\ phase = "cloneDone"
    /\ Enter(Original(snap.cp, stack))
    /\ phase' = "orig"
    /\ snap' = [snap EXCEPT !.between = variables, !.after = variables]
    /\ UNCHANGED cloneResult

\* The clone has been stepped; the embedder now steps the original with a
\* second store that holds what the first held when the clone was stepped
\* (HashMap::clone).
step_original_on_copy ==
    /\ mode = "idle"
    /\ phase = "cloneDone"
    /\ mode' = "called"
    /\ node' = snap.cp.node
    /\ pc' = snap.cp.pc
    /\ stack' = Original(snap.cp, stack).stack
    /\ entry' = Original(snap.cp, stack)
    /\ cp' = NoCheckpoint
    /\ variables' = snap.before
    /\ phase' = "orig"
    /\ snap' = [snap EXCEPT !.between = snap.before, !.after = variables]
    /\ UNCHANGED <<result, cloneResult, callName, callArgs, callOut, runs,
                   option_targets, buildVars, atVars>>

(***************************************************************************)
(* StoryRunner::step: one action per way an iteration of its loop ends.    *)
(***************************************************************************)
InStep == mode \in {"called", "running"}

\* node.instructions[pc] is in range.
InRange == node \in DOMAIN Nodes /\ pc < Len(Nodes[node].instructions)

\* let instruction = &node.instructions[pc]
Fetched == Nodes[node].instructions[pc + 1]

\* OpCode::from_i32(..).ok_or(InvalidInstruction(..)).and_then(execute)
Decoded(n, instruction, s, store) ==
    LET opcode == from_i32(instruction.opcode)
    IN  IF opcode = "none"
        THEN Failed(InvalidInstruction(instruction.opcode), s, store)
        ELSE execute(n, opcode, instruction.operands, s, store)

Executed == Decoded(node, Fetched, stack, variables)

\* (node, pc) = match flow { Next => (node, pc + 1), Jump(node, target) =>
\* (node, target) }
FlowTarget(flow, n, offset) ==
    IF flow.jump THEN [node |-> flow.node, pc |-> flow.target]
    ELSE [node |-> n, pc |-> offset + 1]

\* An error that reports where the checkpoint stood, not where the loop
\* was.
ErrorContext_Entry(n, offset, instruction, given) ==
    [node |-> given.node, pc |-> given.pc,
     instruction |-> Nodes[given.node].instructions[given.pc + 1]]

\* The context a StoryRunnerError is given: the node, the pc and the
\* instruction of the iteration that failed.
ErrorContext(n, offset, instruction, given) ==
    [node |-> n, pc |-> offset, instruction |-> instruction]

\* An embedder that takes no note of the options it is given.
Noted_Ignoring(targets, event) == targets

\* The embedder's match on the event a step returned: the target of an
\* enabled option joins option_targets.
Noted(targets, event) ==
    IF event.tag = "AddOption" /\ event.enabled
    THEN Append(targets, event.target)
    ELSE targets

\* A call of step returns `r`: the clone experiment moves on.
Returned(r) ==
    /\ result' = r
    /\ mode' = "idle"
    /\ phase' = CASE phase = "clone" -> "cloneDone"
                  [] phase = "orig" -> "origDone"
                  [] OTHER -> phase
    /\ cloneResult' = IF phase = "clone" THEN r ELSE cloneResult
    /\ UNCHANGED <<snap, entry, callName, callArgs, callOut, runs,
                   buildVars,
                   atVars>>

\* The fetch indexes past the end of the node's instructions: a panic.
step_fetch_panics ==
    /\ InStep
    /\ ~InRange
    /\ mode' = "panicked"
    /\ UNCHANGED <<cp, variables, node, pc, stack, result, entry, phase, snap,
                   cloneResult, callName, callArgs, callOut, runs,
                   option_targets, buildVars,
                   atVars>>

\* execute panics (the unwrap of RunNode, the expect of initial_value).
step_execute_panics(out) ==
    /\ out.kind = "panic"
    /\ mode' = "panicked"
    /\ stack' = out.stack
    /\ variables' = out.variables
    /\ UNCHANGED <<cp, node, pc, result, entry, phase, snap, cloneResult,
                   callName, callArgs, callOut, runs, option_targets,
                   buildVars,
                   atVars>>

\* Err(source) => return Err(StoryRunnerError { .. }): no checkpoint comes
\* back.
step_return_err(out) ==
    /\ out.kind = "err"
    /\ LET context == ErrorContext(node, pc, Fetched, entry)
       IN  Returned(StoryRunnerError(out.err, context.node, context.pc,
                                     context.instruction))
    /\ stack' = out.stack
    /\ variables' = out.variables
    /\ UNCHANGED <<cp, node, pc, option_targets>>

\* Ok with no event: the loop goes on.
step_continue(out) ==
    /\ out.kind = "ok"
    /\ out.event = NoEvent
    /\ LET to == FlowTarget(out.flow, node, pc)
       IN  node' = to.node /\ pc' = to.pc
    /\ stack' = out.stack
    /\ variables' = out.variables
    /\ mode' = "running"
    /\ UNCHANGED <<cp, result, entry, phase, snap, cloneResult, callName,
                   callArgs, callOut, runs, option_targets, buildVars,
                   atVars>>

\* Ok with an event: return Ok((StoryCheckpoint::at(node, pc, stack), event)).
step_return_ok(out) ==
    /\ out.kind = "ok"
    /\ out.event # NoEvent
    /\ LET to == FlowTarget(out.flow, node, pc)
       IN  /\ node' = to.node /\ pc' = to.pc
           /\ cp' = Checkpoint(to.node, to.pc, out.stack)
           /\ Returned(StepOk(Checkpoint(to.node, to.pc, out.stack),
                              out.event))
    /\ stack' = out.stack
    /\ variables' = out.variables
    /\ option_targets' = Noted(option_targets, out.event)

\* One iteration of step's loop on an instruction that is in range, by the
\* way it ends.
step_panics == InStep /\ InRange /\ \E out \in {Executed} : step_execute_panics(out)
step_fails == InStep /\ InRange /\ \E out \in {Executed} : step_return_err(out)
step_loops == InStep /\ InRange /\ \E out \in {Executed} : step_continue(out)
step_returns == InStep /\ InRange /\ \E out \in {Executed} : step_return_ok(out)

Next ==
    \/ \E name \in DOMAIN Nodes : checkpoint_at(name)
    \/ \E name \in OptionNames : select_option(name)
    \/ step_call
    \/ step_clone
    \/ step_original
    \/ step_original_on_copy
    \/ step_fetch_panics
    \/ step_panics
    \/ step_fails
    \/ step_loops
    \/ step_returns

Spec == Init /\ [][Next]_vars

(***************************************************************************)
(* The library on its own: any name, any short argument list.              *)
(***************************************************************************)
LibraryNames == (DOMAIN Builtins) \cup {"Number.Subtract"}
LibraryValues ==
    {StringValue("Sum"), FloatValue(2), BoolValue(TRUE), BoolValue(FALSE)}

RECURSIVE SeqsUpTo(_, _)
SeqsUpTo(values, n) ==
    IF n = 0 THEN {<<>>}
    ELSE LET shorter == SeqsUpTo(values, n - 1)
         IN  shorter \cup {Append(q, x) : q \in shorter, x \in values}

LibraryInit ==
    /\ cp = NoCheckpoint
    /\ variables \in InitialStores
    /\ mode = "library"
    /\ node = "" /\ pc = 0 /\ stack = <<>>
    /\ result = NoResult
    /\ entry = NoCheckpoint
    /\ phase = "none" /\ snap = NoSnap /\ cloneResult = NoResult
    /\ callName \in LibraryNames
    /\ callArgs \in SeqsUpTo(LibraryValues, MaxArgs)
    /\ callOut = NoCallOut
    /\ EmbedderIdle
    /\ BuildIdle
    /\ AtIdle

\* library.call(name, cx, parameters)
library_call ==
    /\ mode = "library"
    /\ callOut = NoCallOut
    /\ callOut' = Library_call(callName, variables, callArgs)
    /\ UNCHANGED <<cp, variables, mode, node, pc, stack, result, entry, phase,
                   snap, cloneResult, callName, callArgs, runs,
                   option_targets, buildVars,
                   atVars>>

LibraryNext == library_call

LibrarySpec == LibraryInit /\ [][LibraryNext]_vars

(***************************************************************************)
(* Operand access on its own: any short operand list, any of the three     *)
(* native types, any index.                                                *)
(***************************************************************************)
\* Operand { value: Option<Value> }: a value of each tag, or none.
OperandValues == LibraryValues \cup {None}
NativeTypes == {"String", "bool", "f32"}

OperandInit ==
    /\ cp = NoCheckpoint
    /\ variables = EmptyStore
    /\ mode = "operand"
    /\ node = "" /\ pc = 0 /\ stack = <<>>
    /\ result = NoResult
    /\ entry = NoCheckpoint
    /\ phase = "none" /\ snap = NoSnap /\ cloneResult = NoResult
    /\ LibraryIdle
    /\ EmbedderIdle
    /\ BuildIdle
    /\ atOperands \in SeqsUpTo(OperandValues, MaxOperands)
    /\ atType \in NativeTypes
    /\ atIndex \in 0..MaxOperands
    /\ atOut = NoAtOut

\* operands.at::<T>(index)
operand_at ==
    /\ mode = "operand"
    /\ atOut = NoAtOut
    /\ atOut' = at(atOperands, atType, atIndex)
    /\ UNCHANGED <<runVars, buildVars, atOperands, atType, atIndex>>

OperandNext == operand_at

OperandSpec == OperandInit /\ [][OperandNext]_vars

(***************************************************************************)
(* Builder::build on its own: any short list of sources.                   *)
(***************************************************************************)
\* HashMap<String, V> with keys among `keys` and values among `values`.
PartialMaps(keys, values) == UNION {[D -> values] : D \in SUBSET keys}

\* The programs the sources hold: nodes A and B, the initial value x; a
\* number stands for the node or the operand under a key.
BuildPrograms ==
    {[nodes |-> n, initial_values |-> i] :
        n \in {m \in PartialMaps({"A", "B"}, {1, 2}) :
                  "B" \in DOMAIN m => m["B"] = 1},
        i \in PartialMaps({"x"}, {1, 2})}

\* Source::Program(program) and Source::ProgramFile(path): loads is "ok"
\* when the file is read and decoded (to `program`), "io" when read fails,
\* "protocol" when Program::decode fails.
BuildSources ==
    {[kind |-> "Program", program |-> p, loads |-> "ok"] : p \in BuildPrograms}
    \cup {[kind |-> "ProgramFile", program |-> p, loads |-> "ok"] :
             p \in BuildPrograms}
    \cup {[kind |-> "ProgramFile", program |-> NoProgram, loads |-> l] :
             l \in {"io", "protocol"}}

BuildInit ==
    /\ cp = NoCheckpoint
    /\ variables = EmptyStore
    /\ mode = "build"
    /\ node = "" /\ pc = 0 /\ stack = <<>>
    /\ result = NoResult
    /\ entry = NoCheckpoint
    /\ phase = "none" /\ snap = NoSnap /\ cloneResult = NoResult
    /\ LibraryIdle
    /\ EmbedderIdle
    /\ sources \in SeqsUpTo(BuildSources, MaxSources)
    /\ merged = 0
    /\ root = NoProgram
    /\ built = NoBuilt
    /\ AtIdle

\* No keys are found in dest.
Ambiguous_None(dest, source) == {}

\* merge: the keys of source that dest.contains_key finds.
Ambiguous(dest, source) == (DOMAIN source) \cap (DOMAIN dest)

\* merge, when it finds no key in dest: dest.insert(key, node) of every
\* entry of source.
merge(dest, source) ==
    [k \in (DOMAIN dest) \cup (DOMAIN source) |->
        IF k \in DOMAIN source THEN source[k] ELSE dest[k]]

\* `for source in self.sources` is at a source still to be merged.
InBuild == mode = "build" /\ built = NoBuilt /\ merged < Len(sources)

\* read(&path) or Program::decode fails: `?` returns the error.
build_load_fails ==
    /\ InBuild
    /\ sources[merged + 1].loads # "ok"
    /\ built' = BuildErr(IF sources[merged + 1].loads = "io" THEN "Io"
                         ELSE "Protocol", "", "")
    /\ UNCHANGED <<runVars, atVars, sources, merged, root>>

\* A merge finds a key in dest: try_for_each stops at the first such key
\* of the source in the order its HashMap iterates, which is any of them.
\* The nodes are merged before the initial values.
build_merge_fails ==
    /\ InBuild
    /\ sources[merged + 1].loads = "ok"
    /\ LET program == sources[merged + 1].program
           names == Ambiguous(root.nodes, program.nodes)
           keys == Ambiguous(root.initial_values, program.initial_values)
       IN  \/ \E key \in names :
                built' = BuildErr("Ambiguity", "NodeName", key)
           \/ /\ names = {}
              /\ \E key \in keys :
                    built' = BuildErr("Ambiguity", "InitialValueName", key)
    /\ UNCHANGED <<runVars, atVars, sources, merged, root>>

\* Both merges of a source succeed.
build_merges ==
    /\ InBuild
    /\ sources[merged + 1].loads = "ok"
    /\ LET program == sources[merged + 1].program
       IN  /\ Ambiguous(root.nodes, program.nodes) = {}
           /\ Ambiguous(root.initial_values, program.initial_values) = {}
           /\ root' = [nodes |-> merge(root.nodes, program.nodes),
                       initial_values |->
                           merge(root.initial_values,
                                 program.initial_values)]
    /\ merged' = merged + 1
    /\ UNCHANGED <<runVars, atVars, sources, built>>

\* Ok(Story { program: root })
build_returns ==
    /\ mode = "build"
    /\ built = NoBuilt
    /\ merged = Len(sources)
    /\ built' = BuildOk(root)
    /\ UNCHANGED <<runVars, atVars, sources, merged, root>>

BuildNext ==
    \/ build_load_fails
    \/ build_merge_fails
    \/ build_merges
    \/ build_returns

BuildSpec == BuildInit /\ [][BuildNext]_vars

(***************************************************************************)
(* An embedder that follows the protocol: it starts the story once, steps  *)
(* until a step gives Complete or fails, and after ShowOptions selects one *)
(* of the enabled options it was given before it steps again.              *)
(***************************************************************************)
\* let mut checkpoint = story.checkpoint_at(start), once.
run_start(name) == runs = 0 /\ checkpoint_at(name)

\* loop { .. runner.step(&story, checkpoint, &mut vars)? .. }: the `?` ends
\* the run at an error, Complete ends the loop, and after ShowOptions the
\* next step waits for the selection.
run_step ==
    /\ result.kind # "err"
    /\ result.event # Complete
    /\ (result.event = ShowOptions => cp # result.checkpoint)
    /\ step_call

\* checkpoint.select_option(option_targets.remove(option - 1)), once per
\* ShowOptions.
run_select ==
    /\ result.kind = "ok"
    /\ result.event = ShowOptions
    /\ cp = result.checkpoint
    /\ \E i \in 1..Len(option_targets) : select_option(option_targets[i])

RunNext ==
    \/ \E name \in DOMAIN Nodes : run_start(name)
    \/ run_step
    \/ run_select
    \/ step_fetch_panics
    \/ step_panics
    \/ step_fails
    \/ step_loops
    \/ step_returns

\* The embedder's loop and step's loop are sequential code of one running
\* thread: whenever one of them has a next move, a move is made.
RunSpec == Init /\ [][RunNext]_vars /\ WF_vars(RunNext)

(***************************************************************************)
(* The claims.                                                             *)
(***************************************************************************)
\* Whether a checkpoint's offset is an index of its node's instructions.
Resumable(checkpoint) ==
    /\ checkpoint.node \in DOMAIN Nodes
    /\ checkpoint.pc < Len(Nodes[checkpoint.node].instructions)

\* The opcode and the operands of the instruction step's loop is at.
AtOpcode(op) == InStep /\ InRange /\ from_i32(Fetched.opcode) = op
Top(s) == s[Len(s)]
Below(s, n) == SubSeq(s, 1, Len(s) - n)

\* C1: a call of step on a checkpoint whose pc is below the length of its
\* node's instructions never panics, and when it returns an event other
\* than Complete the pc of the checkpoint it returns is again below the
\* length of that checkpoint's node.
C1_StepStaysInRange ==
    Resumable(entry) =>
        /\ mode # "panicked"
        /\ (mode = "idle" /\ result.kind = "ok" /\ result.event # Complete)
              => Resumable(result.checkpoint)

\* C2: JumpIfFalse on a stack of depth >= 1 decides on the top of the
\* stack: a Boolean false on top jumps to the label of operand 0, a Boolean
\* true on top advances to pc + 1, whatever lies below the top.
C2_JumpIfFalseReadsTop ==
    [][(/\ AtOpcode("JumpIfFalse")
        /\ Len(stack) >= 1
        /\ Top(stack).t = "b"
        /\ at(Fetched.operands, "String", 0).ok
        /\ at(Fetched.operands, "String", 0).val.s \in DOMAIN Nodes[node].labels)
       => /\ mode' = "running"
          /\ node' = node
          /\ pc' = IF Top(stack).b THEN pc + 1
                   ELSE Nodes[node].labels[
                            at(Fetched.operands, "String", 0).val.s]]_vars

\* C3: StoreVariable name on a stack of depth >= 1 sets variables[name] to
\* the top of the stack, whatever lies below it.
C3_StoreVariableStoresTop ==
    [][(/\ AtOpcode("StoreVariable")
        /\ Len(stack) >= 1
        /\ at(Fetched.operands, "String", 0).ok)
       => /\ mode' = "running"
          /\ get(variables', at(Fetched.operands, "String", 0).val.s)
                = Top(stack)]_vars

C6_SelectedOptionIsJumpedTo ==
    [][\A t \in OptionNames :
        (/\ mode = "called"
         /\ result.kind = "ok"
         /\ result.event = ShowOptions
         /\ entry.node = result.checkpoint.node
         /\ entry.pc = result.checkpoint.pc
         /\ entry.stack = result.checkpoint.stack \o <<StringValue(t)>>
         /\ AtOpcode("Jump"))
        => IF t \in DOMAIN Nodes[node].labels
           THEN /\ mode' = "running"
                /\ node' = node
                /\ pc' = Nodes[node].labels[t]
                /\ stack' = result.checkpoint.stack
           ELSE /\ mode' = "idle"
                /\ result'.kind = "err"
                /\ result'.source = InvalidLabel(t)]_vars

\* C6's case: ShowOptions was returned with a string on the stack, "B" was
\* selected, and the Jump has gone to label B with the stack as it was.
C6_Witness ==
    /\ mode = "running"
    /\ result.event = ShowOptions
    /\ entry = Checkpoint("Opts", 3, <<StringValue("A"), StringValue("B")>>)
    /\ node = "Opts"
    /\ pc = 6
    /\ stack = <<StringValue("A")>>

\* The state after a call of step from a checkpoint at offset `offset` of
\* node Start has returned.
AfterStepFromStart(offset) ==
    mode = "idle" /\ result.kind # "none" /\ entry.node = "Start"
        /\ entry.pc = offset

\* C7 as stated: from an empty stack at offset 0 of [PushString "x";
\* PushFloat 1; RunLine "greet" 1; Stop] the first step returns
\* ShowLine{key: "greet", substitutions: ["x"]} and the second Complete.
C7_ScenarioOne ==
    /\ (AfterStepFromStart(0) /\ entry.stack = <<>>)
          => (result.kind = "ok" /\ result.event = ShowLine("greet", <<"x">>))
    /\ AfterStepFromStart(3)
          => (result.kind = "ok" /\ result.event = Complete)

\* C7 as amended: the first step returns ShowLine{key: "greet",
\* substitutions: ["1"]}, the number on top of the stack formatted, and
\* leaves "x" on the stack; the second step returns Complete.
C7_ScenarioOneAsRun ==
    /\ (AfterStepFromStart(0) /\ entry.stack = <<>>)
          => /\ result.kind = "ok"
             /\ result.event = ShowLine("greet", <<"1">>)
             /\ result.checkpoint = Checkpoint("Start", 3, <<StringValue("x")>>)
    /\ AfterStepFromStart(3)
          => (result.kind = "ok" /\ result.event = Complete)

\* C7's case: the second step of the scenario has returned.
C7_Witness ==
    /\ AfterStepFromStart(3)
    /\ entry.stack = <<StringValue("x")>>
    /\ result.event = Complete

\* C8: CallFunc name, on a stack that holds a number n on top of at least n
\* values, calls the library function `name` with those n values in the
\* order they were pushed; when the call succeeds the stack afterwards is
\* the stack below the n values with the returned value on top (7 after
\* PushFloat 3; PushFloat 4; PushFloat 2; CallFunc Number.Add), and when
\* the call fails the step fails with the call's error.
C8_CallFuncCallsInPushOrder ==
    [][(/\ AtOpcode("CallFunc")
        /\ at(Fetched.operands, "String", 0).ok
        /\ Len(stack) >= 1
        /\ Top(stack).t = "n"
        /\ Len(stack) >= AsUsize(Top(stack).n) + 1)
       => LET n == AsUsize(Top(stack).n)
              pushed == SubSeq(stack, Len(stack) - n, Len(stack) - 1)
              name == at(Fetched.operands, "String", 0).val.s
              called == Library_call(name, variables, pushed).res
          IN  IF called.ok
              THEN /\ mode' = "running"
                   /\ node' = node /\ pc' = pc + 1
                   /\ stack' = Append(Below(stack, n + 1), called.val)
                   /\ (name = "Number.Add"
                         /\ pushed = <<FloatValue(3), FloatValue(4)>>)
                        => Top(stack') = FloatValue(7)
              ELSE /\ mode' = "idle"
                   /\ result'.kind = "err"
                   /\ result'.source = called.err]_vars

\* C8's case: Number.Add has been called on 3 and 4 and has left 7 on top
\* of what the stack held below them.
C8_Witness ==
    /\ mode = "running"
    /\ node = "Sum"
    /\ pc = 4
    /\ Len(entry.stack) > 0
    /\ stack = Append(entry.stack, FloatValue(7))

\* Whether a value's tag converts to a parameter type: any tag to a string,
\* a boolean to bool, a number to f32.
Convertible(ty, value) ==
    \/ ty = "String"
    \/ ty = "bool" /\ value.t = "b"
    \/ ty = "f32" /\ value.t = "n"

C10_ErrorNamesFailedInstruction ==
    [][(InStep /\ mode' = "idle" /\ result'.kind = "err")
       => /\ InRange
          /\ Executed.kind = "err"
          /\ result'.source = Executed.err
          /\ result'.node = node
          /\ result'.pc = pc
          /\ result'.instruction = Fetched
          /\ result'.checkpoint = NoCheckpoint
          /\ cp' = NoCheckpoint]_vars

\* C10's case: a step from node Go has failed in node Fail, which RunNode
\* entered, at an offset beyond the checkpoint's.
C10_Witness ==
    /\ mode = "idle"
    /\ result.kind = "err"
    /\ entry.node = "Go"
    /\ result.node = "Fail"
    /\ result.pc > entry.pc
    /\ cp = NoCheckpoint

\* C11: PushVariable name pushes variables.get(name) when the store holds
\* name, whatever the story's initial values; on a store that lacks name it
\* pushes the story's initial value of name when the story has one, and
\* fails with Missing, pushing nothing, when it has none.  The store is left
\* as it was in each case.
C11_PushVariableFallsBack ==
    [][(AtOpcode("PushVariable") /\ at(Fetched.operands, "String", 0).ok)
       => LET name == at(Fetched.operands, "String", 0).val.s
          IN  /\ variables' = variables
              /\ IF name \in DOMAIN variables
                 THEN /\ mode' = "running"
                      /\ stack' = Append(stack, variables[name])
                 ELSE IF name \in DOMAIN InitialValues
                 THEN /\ mode' = "running"
                      /\ stack' = Append(stack, InitialValues[name])
                 ELSE /\ mode' = "idle"
                      /\ result'.kind = "err"
                      /\ result'.source = Missing
                      /\ stack' = stack]_vars

\* The opcodes whose instruction, when it succeeds, gives an event.
EmittingOpCodes == {"RunLine", "RunCommand", "AddOption", "ShowOptions", "Stop"}

\* The tag of the event an emitting opcode gives.
EventTagOf(op) ==
    CASE op = "RunLine" -> "ShowLine"
      [] op = "RunCommand" -> "Command"
      [] op = "AddOption" -> "AddOption"
      [] op = "ShowOptions" -> "ShowOptions"
      [] op = "Stop" -> "Complete"

\* C12: a call of step goes on past every instruction that succeeds without
\* an event, and returns at the first emitting instruction (RunLine,
\* RunCommand, AddOption, ShowOptions, Stop) that succeeds, with that
\* instruction's event and the checkpoint just behind it: nothing after it
\* is executed in the same step, and a step returns successfully nowhere
\* else.  The events of successive steps are thus those of the emitting
\* instructions in the order they are executed.
C12_OneEventPerStep ==
    [][(InStep /\ InRange)
       => LET op == from_i32(Fetched.opcode)
          IN  /\ (op \in EmittingOpCodes /\ Executed.kind = "ok")
                   => /\ mode' = "idle"
                      /\ Executed.event.tag = EventTagOf(op)
                      /\ result' = StepOk(Checkpoint(node, pc + 1,
                                                     Executed.stack),
                                          Executed.event)
                      /\ cp' = result'.checkpoint
              /\ (op \notin EmittingOpCodes /\ Executed.kind = "ok")
                   => /\ mode' = "running"
                      /\ result' = result
              /\ (mode' = "idle" /\ result'.kind = "ok")
                   => op \in EmittingOpCodes]_vars

\* C12's case: a step from the head of node Sum has run four instructions
\* that give no event and has returned the line of the fifth.
C12_Witness ==
    /\ mode = "idle"
    /\ entry = Checkpoint("Sum", 0, <<>>)
    /\ result = StepOk(Checkpoint("Sum", 5, <<>>), ShowLine("sum", <<"7">>))

\* The count an instruction reads from operand `index` (0-based), 0 when
\* the operand list stops short of it.
CountAt(operands, index) ==
    IF Len(operands) > index THEN AsUsize(operands[index + 1].n) ELSE 0

\* The net change in stack depth the specification gives each opcode; n is
\* the count the instruction reads (for CallFunc, the number on top of the
\* stack), taken as the code takes it: as usize.
StackDelta(op, operands, s) ==
    CASE op = "JumpTo" -> 0
      [] op = "Jump" -> 0 - 1
      [] op = "RunLine" -> 0 - CountAt(operands, 1)
      [] op = "RunCommand" -> 0 - CountAt(operands, 1)
      [] op = "AddOption" ->
            IF Len(operands) > 3 /\ operands[4].b
            THEN 0 - (CountAt(operands, 2) + 1)
            ELSE 0 - CountAt(operands, 2)
      [] op = "ShowOptions" -> 0
      [] op \in {"PushString", "PushFloat", "PushBool"} -> 1
      [] op = "JumpIfFalse" -> 0
      [] op = "Pop" -> 0 - 1
      [] op = "CallFunc" -> 0 - AsUsize(Top(s).n)
      [] op = "PushVariable" -> 1
      [] op = "StoreVariable" -> 0
      [] op = "Stop" -> 0
      [] op = "RunNode" -> 0 - 1

\* C13: every instruction that executes successfully changes the depth of
\* the stack by the delta of its opcode, so the depth after a successful
\* run of instructions is the depth before it plus the sum of their deltas.
C13_StackBalance ==
    [][(InStep /\ InRange /\ Executed.kind = "ok")
       => Len(stack') = Len(stack)
             + StackDelta(from_i32(Fetched.opcode), Fetched.operands, stack)]_vars

\* C13's case: the AddOption of node Ask that takes two substitutions and a
\* condition has taken the stack from depth 4 to depth 1.
C13_Witness ==
    /\ mode = "idle"
    /\ entry = Checkpoint("Ask", 0, <<StringValue("B")>>)
    /\ result.kind = "ok"
    /\ result.event.key = "k3"
    /\ result.checkpoint = Checkpoint("Ask", 4, <<StringValue("B")>>)

\* C14: JumpIfFalse leaves the stack as it found it, whether it jumps or
\* advances; and the step from stack [false] at [JumpIfFalse "end";
\* RunLine "skip" 0; end: Stop] (offsets 2 to 4 of node Skip) returns
\* Complete, not the line, with [false] still the stack of the checkpoint.
C14_JumpIfFalseKeepsStack ==
    [][/\ AtOpcode("JumpIfFalse") => stack' = stack
       /\ (/\ mode' = "idle"
           /\ result'.kind # "none"
           /\ entry' = Checkpoint("Skip", 2, <<BoolValue(FALSE)>>))
          => result' = StepOk(Checkpoint("Skip", 5, <<BoolValue(FALSE)>>),
                              Complete)]_vars

\* C14's case: the step of the scenario has returned.
C14_Witness ==
    /\ mode = "idle"
    /\ entry = Checkpoint("Skip", 2, <<BoolValue(FALSE)>>)
    /\ result.kind = "ok"
    /\ result.checkpoint.stack = <<BoolValue(FALSE)>>

\* What C15 says of a jump to the label L: in a node that has L the loop
\* goes on at labels[L] of the same node; in a node that has not, the step
\* fails with InvalidLabel(L) at the jump, which is not taken.
JumpsToLabel(L) ==
    IF L \in DOMAIN Nodes[node].labels
    THEN /\ mode' = "running"
         /\ node' = node
         /\ pc' = Nodes[node].labels[L]
    ELSE /\ mode' = "idle"
         /\ result'.kind = "err"
         /\ result'.source = InvalidLabel(L)
         /\ result'.node = node
         /\ result'.pc = pc
         /\ node' = node /\ pc' = pc

\* C15: JumpTo L, and Jump with the string L on top of the stack, set the
\* pc to labels[L] and keep the node when the node has the label L, and
\* fail with InvalidLabel(L) without jumping when it has not.
C15_LabelDeterminism ==
    [][/\ (AtOpcode("JumpTo") /\ at(Fetched.operands, "String", 0).ok)
          => JumpsToLabel(at(Fetched.operands, "String", 0).val.s)
       /\ (AtOpcode("Jump") /\ Len(stack) >= 1 /\ Top(stack).t = "s")
          => JumpsToLabel(Top(stack).s)]_vars

\* C15's case: the JumpTo of node Lost, whose label the node has not, has
\* failed where it stood.
C15_Witness ==
    /\ mode = "idle"
    /\ entry.node = "Lost"
    /\ result.kind = "err"
    /\ result.source = InvalidLabel("nowhere")
    /\ result.pc = 0

\* RunCommand is about to run with operands ["wait {0} {1}", 2] on a stack
\* whose two topmost values are strings.
AtWaitCommand ==
    /\ AtOpcode("RunCommand")
    /\ Fetched.operands = <<StringValue("wait {0} {1}"), FloatValue(2)>>
    /\ Len(stack) >= 2
    /\ stack[Len(stack) - 1].t = "s"
    /\ Top(stack).t = "s"

\* The step returns Command(text), the two strings popped.
ReturnsCommand(text) ==
    /\ mode' = "idle"
    /\ result'.kind = "ok"
    /\ result'.event = Command(text)
    /\ result'.checkpoint.stack = Below(stack, 2)

\* C16 as stated: RunCommand with operands [text, n] puts the i-th pushed
\* of the n strings it pops at placeholder {i}: with operands
\* ["wait {0} {1}", 2] and the strings a, then b, pushed it gives
\* Command("wait a b"), Command("wait 2 slow") for "2" and "slow".
C16_CommandSubstitution ==
    [][AtWaitCommand
       => ReturnsCommand("wait " \o stack[Len(stack) - 1].s \o " "
                            \o Top(stack).s)]_vars

\* C16 as amended: the placeholders are replaced one after the other, {1}
\* by the string on top and then {0} by the string below it in the text as
\* it then stands: a string b that is itself "{0}" is replaced by a in its
\* turn; any other b stands at {1}, and a at {0}.
C16_CommandSubstitutionInTurn ==
    [][AtWaitCommand
       => LET a == stack[Len(stack) - 1].s
              b == Top(stack).s
          IN  ReturnsCommand("wait " \o a \o " "
                                \o (IF b = "{0}" THEN a ELSE b))]_vars

\* C16's case: the scenario's command has been returned, both strings
\* popped.
C16_Witness ==
    /\ mode = "idle"
    /\ entry.node = "Store"
    /\ result.kind = "ok"
    /\ result.event = Command("wait 2 slow")
    /\ result.checkpoint.stack = <<>>

\* The visit count C17 speaks of: the number the store holds under
\* "$Yarn.Internal.Visiting.N", 0 when it holds no number there.
VisitCount(store, N) ==
    LET name == "$Yarn.Internal.Visiting." \o N
    IN  IF name \in DOMAIN store /\ store[name].t = "n" THEN store[name].n
        ELSE 0

\* C17: with the built-in library, CallFunc visited_count on the string N
\* (and the argument count 1 above it) leaves the visit count of N on top
\* of the stack, and CallFunc visited leaves the boolean "that count is
\* > 0": Number(2) and Boolean(true) when the store holds
\* $Yarn.Internal.Visiting.Intro = 2.  Neither changes the store.
C17_VisitCounts ==
    [][(/\ AtOpcode("CallFunc")
        /\ at(Fetched.operands, "String", 0).ok
        /\ at(Fetched.operands, "String", 0).val.s
              \in {"visited_count", "visited"}
        /\ Len(stack) >= 2
        /\ Top(stack) = FloatValue(1)
        /\ stack[Len(stack) - 1].t = "s")
       => LET N == stack[Len(stack) - 1].s
              count == VisitCount(variables, N)
              left == IF at(Fetched.operands, "String", 0).val.s = "visited"
                      THEN BoolValue(count > 0)
                      ELSE FloatValue(count)
          IN  /\ mode' = "running"
              /\ stack' = Append(Below(stack, 2), left)
              /\ variables' = variables
              /\ (N = "Intro"
                    /\ get(variables, "$Yarn.Internal.Visiting.Intro")
                          = FloatValue(2))
                   => left \in {FloatValue(2), BoolValue(TRUE)}]_vars

\* C17's case: with $Yarn.Internal.Visiting.Intro = 2 in the store, node
\* Visit has shown the results of visited_count and of visited.
C17_Witness ==
    /\ mode = "idle"
    /\ entry = Checkpoint("Visit", 0, <<>>)
    /\ get(variables, "$Yarn.Internal.Visiting.Intro") = FloatValue(2)
    /\ result.kind = "ok"
    /\ result.event = ShowLine("v", <<"2", "true">>)

\* C20: AddOption with operands [key, target, n?, hasCondition?], on a
\* stack that holds n strings on top and, when hasCondition is present and
\* true, a boolean below them, returns AddOption{enabled, key,
\* substitutions, target}: key and target are operands 0 and 1, the
\* substitutions are the n strings in the order they were pushed, and
\* enabled is the boolean below them, which is popped after them; without a
\* true hasCondition enabled is true and only the n strings are popped.
C20_AddOptionPopsSubstitutionsFirst ==
    [][\A n \in 0..MaxStack + 3 :
        LET operands == Fetched.operands
            conditional == Len(operands) > 3 /\ operands[4] = BoolValue(TRUE)
            taken == IF conditional THEN n + 1 ELSE n
        IN  (/\ AtOpcode("AddOption")
             /\ Len(operands) >= 2
             /\ operands[1].t = "s" /\ operands[2].t = "s"
             /\ n = CountAt(operands, 2)
             /\ Len(stack) >= taken
             /\ \A i \in 1..n : stack[Len(stack) - n + i].t = "s"
             /\ conditional => stack[Len(stack) - n].t = "b")
            => /\ mode' = "idle"
               /\ result'.kind = "ok"
               /\ result'.event =
                    AddOption(IF conditional THEN stack[Len(stack) - n].b
                              ELSE TRUE,
                              operands[1].s,
                              [i \in 1..n |-> stack[Len(stack) - n + i].s],
                              operands[2].s)
               /\ result'.checkpoint.stack = Below(stack, taken)]_vars

\* C20's case: the AddOption of node Ask with two substitutions and a
\* condition has returned them in push order, disabled by the false below
\* them, and has left the stack it was entered with.
C20_Witness ==
    /\ mode = "idle"
    /\ entry.node = "Ask"
    /\ Len(entry.stack) > 0
    /\ result.kind = "ok"
    /\ result.event = AddOption(FALSE, "k3", <<"p", "q">>, "A")
    /\ result.checkpoint.stack = entry.stack

\* The inputs of a build: the programs of its sources, each of which loads.
AllLoad == \A i \in 1..Len(sources) : sources[i].loads = "ok"
InputNodes(i) == sources[i].program.nodes
InputValues(i) == sources[i].program.initial_values

\* The node names, and the initial-value keys, that occur in two inputs.
SharedNodeNames ==
    {k \in {"A", "B"} :
        \E i, j \in 1..Len(sources) :
            i < j /\ k \in DOMAIN InputNodes(i) /\ k \in DOMAIN InputNodes(j)}
SharedValueNames ==
    {k \in {"x"} :
        \E i, j \in 1..Len(sources) :
            i < j /\ k \in DOMAIN InputValues(i)
                  /\ k \in DOMAIN InputValues(j)}

\* C18: a build of inputs that all load fails with Ambiguity(NodeName, key)
\* for a node name that occurs in two inputs, or with
\* Ambiguity(InitialValueName, key) for an initial-value key that occurs in
\* two inputs, whenever there is such a name or key; when there is none it
\* succeeds, and the story's nodes and initial values are exactly those of
\* the inputs, each as its input holds it.
C18_BuildDetectsAmbiguity ==
    (built # NoBuilt /\ AllLoad) =>
        IF SharedNodeNames = {} /\ SharedValueNames = {}
        THEN /\ built.kind = "ok"
             /\ DOMAIN built.story.nodes =
                   UNION {DOMAIN InputNodes(i) : i \in 1..Len(sources)}
             /\ DOMAIN built.story.initial_values =
                   UNION {DOMAIN InputValues(i) : i \in 1..Len(sources)}
             /\ \A i \in 1..Len(sources) :
                   /\ \A k \in DOMAIN InputNodes(i) :
                         built.story.nodes[k] = InputNodes(i)[k]
                   /\ \A k \in DOMAIN InputValues(i) :
                         built.story.initial_values[k] = InputValues(i)[k]
        ELSE /\ built.kind = "err"
             /\ built.error = "Ambiguity"
             /\ \/ built.reason = "NodeName" /\ built.key \in SharedNodeNames
                \/ /\ built.reason = "InitialValueName"
                   /\ built.key \in SharedValueNames

\* C18's case: two inputs with different nodes that both give x an initial
\* value have been refused for x.
C18_Witness ==
    /\ Len(sources) = 2
    /\ AllLoad
    /\ DOMAIN InputNodes(1) = {"A"}
    /\ DOMAIN InputNodes(2) = {"B"}
    /\ built = BuildErr("Ambiguity", "InitialValueName", "x")


\* The offsets of the instructions of the story, as <<node name, offset>>.
Positions ==
    UNION {{<<n, i>> : i \in 0..(Len(Nodes[n].instructions) - 1)} :
             n \in DOMAIN Nodes}

OpCodeAt(p) == from_i32(Nodes[p[1]].instructions[p[2] + 1].opcode)

\* Where the instruction at p may leave control, whatever the stack and the
\* variables hold: the next offset, a label of the node, the start of a
\* node; nowhere for an instruction that cannot succeed.
After(p) ==
    LET n == p[1]
        i == p[2]
        operands == Nodes[n].instructions[i + 1].operands
        labels == Nodes[n].labels
        named == IF Len(operands) > 0 /\ operands[1].t = "s"
                      /\ operands[1].s \in DOMAIN labels
                 THEN {<<n, labels[operands[1].s]>>}
                 ELSE {}
        op == OpCodeAt(p)
    IN  CASE op \in {"none", "PushNull"} -> {}
          [] op = "JumpTo" -> named
          [] op = "Jump" -> {<<n, labels[l]>> : l \in DOMAIN labels}
          [] op = "JumpIfFalse" -> {<<n, i + 1>>} \cup named
          [] op = "RunNode" -> {<<m, 0>> : m \in DOMAIN Nodes}
          [] OTHER -> {<<n, i + 1>>}

\* The positions from which every path of After ends in `goal`: the least
\* set that holds `goal` and every position all of whose continuations it
\* holds.  A position on a cycle that avoids `goal`, or with a path that
\* leaves its node's instructions, is not in it.
RECURSIVE AllPathsReach(_, _)
AllPathsReach(goal, rounds) ==
    LET more == goal \cup {p \in Positions :
                             After(p) # {} /\ After(p) \subseteq goal}
    IN  IF rounds = 0 \/ more = goal THEN goal
        ELSE AllPathsReach(more, rounds - 1)

\* Every path from the position reaches an emitting opcode before the end
\* of its node, and so lies on no cycle free of emitting opcodes.
Yielding ==
    AllPathsReach({p \in Positions : OpCodeAt(p) \in EmittingOpCodes},
                  Cardinality(Positions))

\* Every path from the position reaches Stop.
Stopping ==
    AllPathsReach({p \in Positions : OpCodeAt(p) = "Stop"},
                  Cardinality(Positions))

StepReturnedComplete == result.kind = "ok" /\ result.event = Complete
StepReturnedError == result.kind = "err"

TextOf(value) == String_try_from(value).val.s

\* C21: RunLine with operands [key, n], on a stack that holds at least n
\* values (n taken as usize), returns ShowLine{key, substitutions} with
\* the n values on top of the stack as strings, in the order they were
\* pushed, and leaves the stack without them; with the single operand
\* [key] it pops nothing and its substitutions are empty.
C21_RunLineSubstitutions ==
    [][\A n \in 0..MaxStack + 3 :
        LET operands == Fetched.operands
        IN  (/\ AtOpcode("RunLine")
             /\ Len(operands) >= 1
             /\ operands[1].t = "s"
             /\ Len(operands) > 1 => operands[2].t = "n"
             /\ n = CountAt(operands, 1)
             /\ Len(stack) >= n)
            => /\ mode' = "idle"
               /\ result'.kind = "ok"
               /\ result'.event =
                    ShowLine(operands[1].s,
                             [i \in 1..n |->
                                TextOf(stack[Len(stack) - n + i])])
               /\ result'.checkpoint.stack = Below(stack, n)]_vars

\* C21's case: the RunLine of node Visit has popped the two values pushed
\* before it, the count first and the boolean second, and has returned
\* them in that order.
C21_Witness ==
    /\ mode = "idle"
    /\ entry.node = "Visit"
    /\ result.kind = "ok"
    /\ result.event = ShowLine("v", <<"2", "true">>)
    /\ result.checkpoint = Checkpoint("Visit", 7, entry.stack)

\* The tag of the values a native type is the wrapping of.
TagOf(ty) ==
    CASE ty = "String" -> "s" [] ty = "bool" -> "b" [] ty = "f32" -> "n"

\* The name of the Value variant a conversion's UnexpectedType carries.
VariantOf(ty) ==
    CASE ty = "bool" -> "Value::BoolValue" [] ty = "f32" -> "Value::FloatValue"
      [] ty = "String" -> "Value::StringValue"

AccessDone == mode = "operand" /\ atOut # NoAtOut
OperandPresent ==
    atIndex < Len(atOperands) /\ atOperands[atIndex + 1] # None

\* C22 as stated: operand access at index k fails with Missing when the
\* list has no index k or the operand has no value, fails with
\* UnexpectedType when the value's tag differs from the requested type,
\* and succeeds only when the tag matches.
C22_OperandAccess ==
    AccessDone
      => /\ ~OperandPresent => atOut = Err(Missing)
         /\ (OperandPresent /\ atOperands[atIndex + 1].t # TagOf(atType))
              => (~atOut.ok /\ atOut.err.kind = "UnexpectedType")
         /\ atOut.ok
              => (OperandPresent /\ atOperands[atIndex + 1].t = TagOf(atType))

\* C22 as amended: operand access at index k fails with Missing when the
\* list has no index k or the operand has no value.  Asked for a number or
\* a boolean, it gives the value when its tag is the one asked for and
\* fails with UnexpectedType, naming the variant asked for and the value
\* found, otherwise.  Asked for a string, it succeeds on every value: a
\* string is given as it is, a number and a boolean as their text.
C22_OperandAccessCoercing ==
    AccessDone
      => /\ ~OperandPresent => atOut = Err(Missing)
         /\ (OperandPresent /\ atType # "String")
              => LET value == atOperands[atIndex + 1]
                 IN  atOut = IF value.t = TagOf(atType) THEN Ok(value)
                             ELSE Err(UnexpectedType(VariantOf(atType), value))
         /\ (OperandPresent /\ atType = "String")
              => LET value == atOperands[atIndex + 1]
                 IN  atOut = Ok(StringValue(
                                  CASE value.t = "s" -> value.s
                                    [] value.t = "n" -> ToString(value.n)
                                    [] value.t = "b" -> FormatBool(value.b)))

\* C22's case: the second operand of a list of two, a number, has been
\* asked for as a boolean and the access has failed with UnexpectedType.
C22_Witness ==
    /\ AccessDone
    /\ Len(atOperands) = 2
    /\ atIndex = 1
    /\ atType = "bool"
    /\ atOperands[2] = FloatValue(2)
    /\ atOut = Err(UnexpectedType("Value::BoolValue", FloatValue(2)))

\* C23: RunNode on a stack of depth >= 1 pops the name on top of it; when
\* the name is that of a node of the story, step goes on at offset 0 of
\* that node with the rest of the stack, and when it is not, step returns
\* an error to its caller.
C23_RunNodeReturnsError ==
    [][(AtOpcode("RunNode") /\ Len(stack) >= 1)
       => LET node_name == TextOf(Top(stack))
          IN  IF node_name \in DOMAIN Nodes
              THEN /\ mode' = "running"
                   /\ node' = node_name
                   /\ pc' = 0
                   /\ stack' = Below(stack, 1)
              ELSE /\ mode' = "idle"
                   /\ result'.kind = "err"]_vars

\* C24: an instruction whose opcode integer is none of the enumerated ones
\* makes step return the error InvalidInstruction(code), and a PushNull
\* instruction makes it return UnsupportedInstruction(PushNull); either
\* way the instruction leaves the stack and the variable store as they
\* were.
C24_UndecodableAndUnsupported ==
    [][(InStep /\ InRange)
       => LET code == Fetched.opcode
              enumerated == code \in 0..(Len(OpCodeNames) - 1)
          IN  /\ ~enumerated
                   => /\ mode' = "idle"
                      /\ result'.kind = "err"
                      /\ result'.source = InvalidInstruction(code)
                      /\ stack' = stack
                      /\ variables' = variables
              /\ (enumerated /\ OpCodeNames[code + 1] = "PushNull")
                   => /\ mode' = "idle"
                      /\ result'.kind = "err"
                      /\ result'.source = UnsupportedInstruction("PushNull")
                      /\ stack' = stack
                      /\ variables' = variables]_vars

\* C24's case: the step from the head of node Fail has written the store,
\* has come to PushNull with a value on the stack and has returned
\* UnsupportedInstruction, the value still on the stack and the write still
\* in the store.
C24_Witness ==
    /\ mode = "idle"
    /\ entry = Checkpoint("Fail", 0, <<>>)
    /\ result.kind = "err"
    /\ result.source = UnsupportedInstruction("PushNull")
    /\ stack = <<BoolValue(TRUE)>>
    /\ variables = set(EmptyStore, "flag", BoolValue(TRUE))

RECURSIVE StepWrites(_, _, _, _)
StepWrites(n, offset, s, store) ==
    IF ~(n \in DOMAIN Nodes /\ offset < Len(Nodes[n].instructions)) THEN <<>>
    ELSE LET instruction == Nodes[n].instructions[offset + 1]
             out == Decoded(n, instruction, s, store)
             to == FlowTarget(out.flow, n, offset)
             write == IF from_i32(instruction.opcode) = "StoreVariable"
                      THEN <<[name |-> instruction.operands[1].s,
                              value |-> peek_any(s).val]>>
                      ELSE <<>>
         IN  IF out.kind # "ok" THEN <<>>
             ELSE IF out.event # NoEvent THEN write
             ELSE write \o StepWrites(to.node, to.pc, out.stack, out.variables)

\* A store with the writes made to it, in order.
RECURSIVE Written(_, _)
Written(store, writes) ==
    IF writes = <<>> THEN store
    ELSE Written([k \in (DOMAIN store) \cup {Head(writes).name} |->
                    IF k = Head(writes).name THEN Head(writes).value
                    ELSE store[k]],
                 Tail(writes))

\* The contents of the store when the step that has just returned began.
StoreAtEntry == IF phase = "cloneDone" THEN snap.before ELSE snap.between

\* C26: when step returns an error, the store holds what it held when the
\* step began, updated by the writes of the StoreVariable instructions the
\* step executed before it failed, in the order they were executed, and by
\* nothing else: no write is undone.
C26_NoRollback ==
    (/\ mode = "idle"
     /\ phase \in {"cloneDone", "origDone"}
     /\ result.kind = "err")
        => variables = Written(StoreAtEntry,
                               StepWrites(entry.node, entry.pc, entry.stack,
                                          StoreAtEntry))

\* C26's case: the step from the head of node Fail wrote flag, failed at
\* PushNull and has left the write in the store.
C26_Witness ==
    /\ mode = "idle"
    /\ phase = "cloneDone"
    /\ result.kind = "err"
    /\ entry = Checkpoint("Fail", 0, <<>>)
    /\ StepWrites(entry.node, entry.pc, entry.stack, snap.before)
         = <<[name |-> "flag", value |-> BoolValue(TRUE)]>>
    /\ snap.before = EmptyStore
    /\ variables = [k \in {"flag"} |-> BoolValue(TRUE)]

\* C27: with the built-in library, an iteration of step's loop changes the
\* variable store only when its instruction is a StoreVariable, and then
\* only the entry of the name the instruction gives: every other entry is
\* kept and none is added or removed.  Every other instruction, a CallFunc
\* of a built-in and a PushVariable that falls back to an initial value
\* included, leaves the store as it was, whether it succeeds or not.
C27_OnlyStoreVariableWrites ==
    [][InStep
       => IF InRange /\ from_i32(Fetched.opcode) = "StoreVariable"
             /\ Len(Fetched.operands) >= 1 /\ Fetched.operands[1] # None
          THEN LET name == TextOf(Fetched.operands[1])
               IN  /\ (DOMAIN variables') \ {name} = (DOMAIN variables) \ {name}
                   /\ \A k \in (DOMAIN variables) \ {name} :
                         variables'[k] = variables[k]
          ELSE variables' = variables]_vars

\* C27's case: the step from the head of node Toggle, on a store that holds
\* flag and two other names, has read flag, called the built-in Bool.Not
\* and stored flag: the store differs in flag alone.
C27_Witness ==
    /\ mode = "idle"
    /\ phase = "cloneDone"
    /\ entry = Checkpoint("Toggle", 0, <<>>)
    /\ result.kind = "ok"
    /\ Cardinality(DOMAIN snap.before) = 3
    /\ snap.before["flag"] = BoolValue(TRUE)
    /\ variables = [snap.before EXCEPT !["flag"] = BoolValue(FALSE)]

=============================================================================
